---- MODULE Spec2Model ----
(***************************************************************************)
(* Model of the configuration-variable graph vertex                        *)
(* (GraphNodeConfigVariable and its flattened variant), of the evaluation  *)
(* pipeline the vertex builds, and of the module-call address types        *)
(* (addrs.ModuleCall, ModuleCallInstance, ModuleCallOutput).               *)
(*                                                                         *)
(* Three specifications share the module:                                  *)
(*   SpecGraph  the vertex's pure operations called on a vertex            *)
(*   SpecEval   a walker running the vertices' evaluation pipelines        *)
(*   SpecAddr   construction and rendering of module-call addresses        *)
(* Go strings are TLA+ strings in the vertex part and sequences of         *)
(* one-character strings in the address part, where rendering is checked   *)
(* character by character.                                                 *)
(***************************************************************************)
EXTENDS Integers, Sequences, FiniteSets, TLC

VARIABLES
    n,          \* SpecGraph: the *GraphNodeConfigVariable under test
    fl,         \* SpecGraph: the vertex returned by Flatten, if it was called
    ret,        \* SpecGraph: the last method call and what it returned
    verts,      \* SpecEval: the vertices of the graph being walked
    pos,        \* SpecEval: per vertex, how many pipeline nodes have run
    status,     \* SpecEval: per vertex, "pending", "running", "done", "failed"
    scratch,    \* SpecEval: per vertex, the pipeline's `variables` map
    table,      \* SpecEval: the walker-owned variable-value table
    trace,      \* SpecEval: per vertex, the pipeline nodes run so far
    reads,      \* SpecEval: per vertex, the table keys Interpolate read
    early,      \* SpecEval: table keys read before their writer committed
    writers,    \* SpecEval: per table key, the vertices that wrote it
    reported,   \* SpecEval: the vertices whose failure the walker was told
    addr,       \* SpecAddr: two address values under construction
    str         \* SpecAddr: per address, the last String() result

graphVars == <<n, fl, ret>>
evalVars == <<verts, pos, status, scratch, table, trace, reads, early, writers, reported>>
addrVars == <<addr, str>>
vars == <<n, fl, ret, verts, pos, status, scratch, table, trace, reads, early,
          writers, reported, addr, str>>

\* ------------------------------------------------------------------ bounds

\* Longest list of references in a raw value (RawConfig.Variables).
MaxRefs == 2
\* Longest module path handed to Flatten.
MaxPathLen == 3
\* Longest CountDependentOn() list of a candidate source vertex.
MaxCountDeps == 2

\* Declared variable names.
VarNames == {"x", "y"}
\* Module names below the root.
ModuleNames == {"a", "b"}

\* ------------------------------------------------- sequences, helper sets

SeqsUpTo(S, k) == UNION {[1..i -> S] : i \in 0..k}

Range(s) == {s[i] : i \in 1..Len(s)}

\* ------------------------------------------ config.InterpolatedVariable

\* The references static analysis finds in a raw value: a user variable
\* (var.<id>), a resource attribute (its resource id) or a reference with no
\* graph name (count.index).
Refs ==
    {[kind |-> "user", id |-> v] : v \in VarNames}
        \cup {[kind |-> "resource", id |-> "aws_instance.web"],
              [kind |-> "count", id |-> "index"]}

\* The dependency name of a reference, "" when it has none.
varNameForVar(v) ==
    CASE v.kind = "user" -> "var." \o v.id
      [] v.kind = "resource" -> v.id
      [] OTHER -> ""

\* ------------------------------------------------ GraphNodeConfigVariable

\* A nil *config.RawConfig, and a raw value whose Variables are vs.
NilValue == [nil |-> TRUE, Variables |-> <<>>]

RawConfig(vs) == [nil |-> FALSE, Variables |-> vs]

Values == {NilValue} \cup {RawConfig(vs) : vs \in SeqsUpTo(Refs, MaxRefs)}

GraphNodeConfigVariable(name, module, value) ==
    [Variable |-> [Name |-> name], Module |-> module, Value |-> value]

Name(node) == "var." \o node.Variable.Name

DependableName(node) == <<Name(node)>>

RemoveIfNotTargeted(node) == TRUE

VariableName(node) == node.Variable.Name

\* The loop of DependentOn: vars[i..] appended to result, names "" skipped.
RECURSIVE DependentOnLoop(_, _, _)
DependentOnLoop(vs, i, result) ==
    IF i > Len(vs) THEN result
    ELSE LET vn == varNameForVar(vs[i])
         IN DependentOnLoop(vs, i + 1,
                            IF vn # "" THEN Append(result, vn) ELSE result)

\* Mutant: the nil check is missing and empty names are kept.
DependentOnUnfiltered(node) ==
    [i \in 1..Len(node.Value.Variables) |-> varNameForVar(node.Value.Variables[i])]

\* Mutant: the first reference is skipped.
DependentOnSkipFirst(node) ==
    IF node.Value.nil THEN <<>>
    ELSE DependentOnLoop(node.Value.Variables, 2, <<>>)

DependentOn(node) ==
    IF node.Value.nil THEN <<>>
    ELSE DependentOnLoop(node.Value.Variables, 1, <<>>)

\* A candidate source vertex: whether it implements GraphNodeCountDependent
\* and, if so, what CountDependentOn() returns.
Vertex(isCountDependent, deps) ==
    [isCountDependent |-> isCountDependent, CountDependentOn |-> deps]

\* Mutant: only the first count dependency is compared.
DestroyEdgeIncludeFirstOnly(node, v) ==
    /\ v.isCountDependent
    /\ Len(v.CountDependentOn) > 0
    /\ v.CountDependentOn[1] = DependableName(node)[1]

DestroyEdgeInclude(node, v) ==
    IF ~v.isCountDependent THEN FALSE
    ELSE \E i \in 1..Len(v.CountDependentOn) :
            \E j \in 1..Len(DependableName(node)) :
                v.CountDependentOn[i] = DependableName(node)[j]

\* -------------------------------------------- GraphNodeConfigVariableFlat

\* The name prefix of a module path: the leading "root" dropped, then
\* "module.<segment>" for each segment, joined with ".".
RECURSIVE modulePrefixJoin(_)
modulePrefixJoin(p) ==
    IF Len(p) = 0 THEN ""
    ELSE IF Len(p) = 1 THEN "module." \o p[1]
    ELSE "module." \o p[1] \o "." \o modulePrefixJoin(Tail(p))

modulePrefixStr(p) ==
    IF Len(p) > 0 /\ p[1] = "root" THEN modulePrefixJoin(Tail(p))
    ELSE modulePrefixJoin(p)

\* Each name prefixed with "<prefix>.", unless the prefix is empty.
modulePrefixList(result, prefix) ==
    IF prefix # "" THEN [i \in 1..Len(result) |-> prefix \o "." \o result[i]]
    ELSE result

Flatten(node, p) == [GraphNodeConfigVariable |-> node, PathValue |-> p]

\* Mutant: the name is built from the parent module's path.
FlatNameParent(f) ==
    LET p == f.PathValue
        prefix == IF Len(p) > 2 THEN modulePrefixStr(SubSeq(p, 1, Len(p) - 1)) ELSE ""
    IN modulePrefixList(<<Name(f.GraphNodeConfigVariable)>>, prefix)[1]

FlatName(f) ==
    modulePrefixStr(f.PathValue) \o "." \o Name(f.GraphNodeConfigVariable)

FlatDependableName(f) == <<FlatName(f)>>

\* Mutant: the dependencies are prefixed with the vertex's own path.
FlatDependentOnOwnPath(f) ==
    LET p == f.PathValue
        prefix == IF Len(p) > 2 THEN modulePrefixStr(p) ELSE ""
    IN modulePrefixList(DependentOn(f.GraphNodeConfigVariable), prefix)

FlatDependentOn(f) ==
    LET p == f.PathValue
        prefix == IF Len(p) > 2 THEN modulePrefixStr(SubSeq(p, 1, Len(p) - 1)) ELSE ""
    IN modulePrefixList(DependentOn(f.GraphNodeConfigVariable), prefix)

FlatPath(f) ==
    LET p == f.PathValue
    IN IF Len(p) > 2 THEN SubSeq(p, 1, Len(p) - 1) ELSE <<>>

\* Mutant: the policy is decided against the flattened DependableName.
FlatDestroyEdgeIncludeOwnName(f, v) ==
    /\ v.isCountDependent
    /\ \E i \in 1..Len(v.CountDependentOn) :
          v.CountDependentOn[i] = FlatDependableName(f)[1]

\* DestroyEdgeInclude is promoted from the embedded *GraphNodeConfigVariable:
\* its receiver is the base vertex.
FlatDestroyEdgeInclude(f, v) == DestroyEdgeInclude(f.GraphNodeConfigVariable, v)

\* --------------------------------------------------- evaluation pipeline

\* Mutant: the nil check is missing, the sequence is always built.
EvalTreeNoNilCheck(node) ==
    [type |-> "EvalSequence",
     Nodes |-> <<"EvalInterpolate", "EvalVariableBlock", "EvalCoerceMapVariable",
                 "EvalTypeCheckVariable", "EvalSetVariables">>]

\* Mutant: EvalSetVariables is listed before EvalTypeCheckVariable.
EvalTreeCommitEarly(node) ==
    IF node.Value.nil THEN [type |-> "EvalNoop", Nodes |-> <<>>]
    ELSE [type |-> "EvalSequence",
          Nodes |-> <<"EvalInterpolate", "EvalVariableBlock", "EvalCoerceMapVariable",
                      "EvalSetVariables", "EvalTypeCheckVariable">>]

EvalTree(node) ==
    IF node.Value.nil THEN [type |-> "EvalNoop", Nodes |-> <<>>]
    ELSE [type |-> "EvalSequence",
          Nodes |-> <<"EvalInterpolate", "EvalVariableBlock", "EvalCoerceMapVariable",
                      "EvalTypeCheckVariable", "EvalSetVariables">>]

\* The vertices of the walked graph, all of one owning module.
EvalNames == {"x", "y", "z"}

OwningModule == "child"

\* References of the walked graph's raw values. RawConfig.Variables is keyed
\* by the reference, so a raw value holds each reference once.
EvalRefs ==
    {[kind |-> "user", id |-> "x"], [kind |-> "user", id |-> "y"],
     [kind |-> "count", id |-> "index"]}

EvalValues ==
    {NilValue} \cup
    {RawConfig(vs) : vs \in {s \in SeqsUpTo(EvalRefs, MaxRefs) :
                               \A i, j \in 1..Len(s) : i # j => s[i] # s[j]}}

\* The table slot a vertex commits to: owningModule / variable name.
Key(node) == <<node.Module, node.Variable.Name>>

Keys == {<<OwningModule, v>> : v \in EvalNames}

\* The table slots Interpolate reads for a raw value: one per reference to a
\* user variable, resolved in the module's scope.
InterpolateReads(node) ==
    {<<node.Module, r.id>> : r \in {q \in Range(node.Value.Variables) : q.kind = "user"}}

\* The walker's rule: every vertex whose DependableName() appears in
\* DependentOn() of v has fully completed.
DependenciesDone(vs, st, v) ==
    \A w \in DOMAIN vs :
        (Range(DependableName(vs[w])) \cap Range(DependentOn(vs[v])) # {})
            => st[w] = "done"

\* ----------------------------------------------------------- addrs package

\* Characters of call and output names, and of string keys.
NameChars == {"a", "."}

KeyChars == {"\""}

\* Longest name or string key.
MaxLen == 1

\* Integer keys.
IntKeys == {0, 12}

\* Call and output names: non-empty, and one name with a "." inside.
Names == (SeqsUpTo(NameChars, MaxLen) \ {<<>>}) \cup {<<"a", ".", "a">>}

NoKey == [kind |-> "none", int |-> 0, str |-> <<>>]

IntKey(i) == [kind |-> "int", int |-> i, str |-> <<>>]

StringKey(s) == [kind |-> "string", int |-> 0, str |-> s]

InstanceKeys ==
    {NoKey} \cup {IntKey(i) : i \in IntKeys}
        \cup {StringKey(s) : s \in SeqsUpTo(KeyChars, MaxLen)}

Digits == <<"0", "1", "2", "3", "4", "5", "6", "7", "8", "9">>

\* %d of a non-negative int.
RECURSIVE Itoa(_)
Itoa(i) ==
    IF i < 10 THEN <<Digits[i + 1]>>
    ELSE Itoa(i \div 10) \o <<Digits[(i % 10) + 1]>>

\* %q of a string: double-quoted, with " and \ escaped by a backslash.
RECURSIVE QuoteBody(_)
QuoteBody(s) ==
    IF Len(s) = 0 THEN <<>>
    ELSE (IF Head(s) \in {"\"", "\\"} THEN <<"\\", Head(s)>> ELSE <<Head(s)>>)
            \o QuoteBody(Tail(s))

Quote(s) == <<"\"">> \o QuoteBody(s) \o <<"\"">>

\* InstanceKey.String(): "[<index>]" or "[<quoted string>]".
KeyString(k) ==
    IF k.kind = "int" THEN <<"[">> \o Itoa(k.int) \o <<"]">>
    ELSE <<"[">> \o Quote(k.str) \o <<"]">>

ModuleDot == <<"m", "o", "d", "u", "l", "e", ".">>

ModuleCall(name) == [Name |-> name]

CallString(c) == ModuleDot \o c.Name

CallInstance(c, key) == [Call |-> c, Key |-> key]

\* Mutant: the key is not rendered.
InstanceStringNoKey(c) == CallString(c.Call)

InstanceString(c) ==
    IF c.Key = NoKey THEN CallString(c.Call)
    ELSE ModuleDot \o c.Call.Name \o KeyString(c.Key)

InstanceOutput(c, name) == [Call |-> c, Name |-> name]

\* Mutant: the "." before the output name is missing.
OutputStringNoDot(co) == InstanceString(co.Call) \o co.Name

OutputString(co) == InstanceString(co.Call) \o <<".">> \o co.Name

\* ============================================================ SpecGraph
\* One vertex, optionally flattened, and the methods called on it.

\* Module paths of a module below the root: "root", then module names.
Paths ==
    {p \in SeqsUpTo({"root"} \cup ModuleNames, MaxPathLen) :
        /\ Len(p) >= 2
        /\ p[1] = "root"
        /\ \A i \in 2..Len(p) : p[i] \in ModuleNames}

NoVertex == Vertex(FALSE, <<>>)

NoRet == [op |-> "none", arg |-> NoVertex, out |-> <<>>, ok |-> FALSE]

Returned(op, arg, out, ok) == [op |-> op, arg |-> arg, out |-> out, ok |-> ok]

\* The names a candidate source vertex may count-depend on.
CandidateNames ==
    {"var." \o v : v \in VarNames} \cup (IF fl.set THEN {FlatName(fl.v)} ELSE {})

Candidates ==
    {NoVertex} \cup {Vertex(TRUE, d) : d \in SeqsUpTo(CandidateNames, MaxCountDeps)}

EvalIdle ==
    /\ verts = <<>> /\ pos = <<>> /\ status = <<>> /\ scratch = <<>>
    /\ table = <<>> /\ trace = <<>> /\ reads = <<>> /\ early = {}
    /\ writers = <<>> /\ reported = {}

AddrIdle == addr = <<>> /\ str = <<>>

GraphIdle ==
    /\ n = GraphNodeConfigVariable("x", OwningModule, NilValue)
    /\ fl = [set |-> FALSE, v |-> Flatten(n, <<>>)]
    /\ ret = NoRet

InitGraph ==
    /\ n \in {GraphNodeConfigVariable(nm, OwningModule, val) :
                nm \in VarNames, val \in Values}
    /\ fl = [set |-> FALSE, v |-> Flatten(n, <<>>)]
    /\ ret = NoRet
    /\ EvalIdle
    /\ AddrIdle

\* n.Flatten(p), also reached through a flattened vertex (promoted method).
DoFlatten(p) ==
    /\ fl' = [set |-> TRUE, v |-> Flatten(n, p)]
    /\ ret' = Returned("Flatten", NoVertex, p, TRUE)
    /\ UNCHANGED <<n, evalVars, addrVars>>

CallName ==
    /\ ret' = Returned("Name", NoVertex,
                       <<IF fl.set THEN FlatName(fl.v) ELSE Name(n)>>, TRUE)
    /\ UNCHANGED <<n, fl, evalVars, addrVars>>

CallDependableName ==
    /\ ret' = Returned("DependableName", NoVertex,
                       IF fl.set THEN FlatDependableName(fl.v) ELSE DependableName(n),
                       TRUE)
    /\ UNCHANGED <<n, fl, evalVars, addrVars>>

CallDependentOn ==
    /\ ret' = Returned("DependentOn", NoVertex,
                       IF fl.set THEN FlatDependentOn(fl.v) ELSE DependentOn(n), TRUE)
    /\ UNCHANGED <<n, fl, evalVars, addrVars>>

CallPath ==
    /\ fl.set
    /\ ret' = Returned("Path", NoVertex, FlatPath(fl.v), TRUE)
    /\ UNCHANGED <<n, fl, evalVars, addrVars>>

CallDestroyEdgeInclude(v) ==
    /\ ret' = Returned("DestroyEdgeInclude", v, <<>>,
                       IF fl.set THEN FlatDestroyEdgeInclude(fl.v, v)
                       ELSE DestroyEdgeInclude(n, v))
    /\ UNCHANGED <<n, fl, evalVars, addrVars>>

CallRemoveIfNotTargeted ==
    /\ ret' = Returned("RemoveIfNotTargeted", NoVertex, <<>>, RemoveIfNotTargeted(n))
    /\ UNCHANGED <<n, fl, evalVars, addrVars>>

CallVariableName ==
    /\ ret' = Returned("VariableName", NoVertex, <<VariableName(n)>>, TRUE)
    /\ UNCHANGED <<n, fl, evalVars, addrVars>>

NextGraph ==
    \/ \E p \in Paths : DoFlatten(p)
    \/ CallName
    \/ CallDependableName
    \/ CallDependentOn
    \/ CallPath
    \/ \E v \in Candidates : CallDestroyEdgeInclude(v)
    \/ CallRemoveIfNotTargeted
    \/ CallVariableName

SpecGraph == InitGraph /\ [][NextGraph]_vars

\* ============================================================= SpecEval
\* A walker visits the vertices of one graph, possibly several at a time,
\* and runs each vertex's EvalTree() node by node.

\* The nodes of an EvalSequence that can return an error.
Fallible ==
    {"EvalInterpolate", "EvalVariableBlock", "EvalCoerceMapVariable",
     "EvalTypeCheckVariable"}

InitEval ==
    /\ \E val \in [EvalNames -> EvalValues] :
          verts = [v \in EvalNames |-> GraphNodeConfigVariable(v, OwningModule, val[v])]
    /\ pos = [v \in EvalNames |-> 0]
    /\ status = [v \in EvalNames |-> "pending"]
    /\ scratch = [v \in EvalNames |-> {}]
    \* A variable nothing in the graph sets has its value set from outside.
    /\ table = [k \in Keys |-> IF verts[k[2]].Value.nil THEN "external" ELSE "unset"]
    /\ trace = [v \in EvalNames |-> <<>>]
    /\ reads = [v \in EvalNames |-> {}]
    /\ early = {}
    /\ writers = [k \in Keys |-> {}]
    /\ reported = {}
    /\ GraphIdle
    /\ AddrIdle

\* The walker starts a vertex once its dependencies have completed.
Start(v) ==
    /\ status[v] = "pending"
    /\ DependenciesDone(verts, status, v)
    /\ status' = [status EXCEPT ![v] = "running"]
    /\ UNCHANGED <<verts, pos, scratch, table, trace, reads, early, writers, reported,
                   graphVars, addrVars>>

\* EvalNoop: nothing is read, nothing is written, no error.
RunNoop(v) ==
    /\ status[v] = "running"
    /\ EvalTree(verts[v]).type = "EvalNoop"
    /\ trace' = [trace EXCEPT ![v] = Append(@, "EvalNoop")]
    /\ status' = [status EXCEPT ![v] = "done"]
    /\ UNCHANGED <<verts, pos, scratch, table, reads, early, writers, reported,
                   graphVars, addrVars>>

\* The vertex is about to run node `node` of its EvalSequence.
AtNode(v, node) ==
    /\ status[v] = "running"
    /\ EvalTree(verts[v]).type = "EvalSequence"
    /\ pos[v] < Len(EvalTree(verts[v]).Nodes)
    /\ EvalTree(verts[v]).Nodes[pos[v] + 1] = node

\* EvalSequence after a node: on an error the sequence stops and the error
\* goes to the walker; otherwise the next node is due, or the vertex is done.
AfterNode(v, node, ok) ==
    /\ trace' = [trace EXCEPT ![v] = Append(@, node)]
    /\ IF ok
       THEN /\ pos' = [pos EXCEPT ![v] = @ + 1]
            /\ status' = [status EXCEPT ![v] =
                            IF pos[v] + 1 = Len(EvalTree(verts[v]).Nodes)
                            THEN "done" ELSE "running"]
            /\ UNCHANGED reported
       ELSE /\ status' = [status EXCEPT ![v] = "failed"]
            /\ reported' = reported \cup {v}
            /\ UNCHANGED pos

\* EvalInterpolate: the raw value is resolved against the table. A symbol
\* that is not available yet is an error; so may any other be (fails).
Interpolate(v, fails) ==
    /\ AtNode(v, "EvalInterpolate")
    /\ LET rd == InterpolateReads(verts[v])
           ok == ~fails /\ \A k \in rd : k \in Keys /\ table[k] # "unset"
       IN /\ reads' = [reads EXCEPT ![v] = rd]
          /\ early' = early \cup
                {k \in rd : \E w \in EvalNames :
                              /\ ~verts[w].Value.nil
                              /\ Key(verts[w]) = k
                              /\ w \notin writers[k]}
          /\ AfterNode(v, "EvalInterpolate", ok)
    /\ UNCHANGED <<verts, scratch, table, writers, graphVars, addrVars>>

\* EvalVariableBlock: the resolved value becomes the entry of `variables`.
VariableBlock(v, fails) ==
    /\ AtNode(v, "EvalVariableBlock")
    /\ scratch' = [scratch EXCEPT ![v] =
                     IF fails THEN @ ELSE {<<verts[v].Variable.Name, "raw">>}]
    /\ AfterNode(v, "EvalVariableBlock", ~fails)
    /\ UNCHANGED <<verts, table, reads, early, writers, graphVars, addrVars>>

\* EvalCoerceMapVariable: each entry converted to its declared type.
CoerceMapVariable(v, fails) ==
    /\ AtNode(v, "EvalCoerceMapVariable")
    /\ scratch' = [scratch EXCEPT ![v] =
                     IF fails THEN @ ELSE {<<e[1], "typed">> : e \in @}]
    /\ AfterNode(v, "EvalCoerceMapVariable", ~fails)
    /\ UNCHANGED <<verts, table, reads, early, writers, graphVars, addrVars>>

\* EvalTypeCheckVariable: each entry validated, nothing changed.
TypeCheckVariable(v, fails) ==
    /\ AtNode(v, "EvalTypeCheckVariable")
    /\ AfterNode(v, "EvalTypeCheckVariable", ~fails)
    /\ UNCHANGED <<verts, scratch, table, reads, early, writers, graphVars, addrVars>>

\* EvalSetVariables: the entries of `variables` written under Module.
SetVariables(v) ==
    /\ AtNode(v, "EvalSetVariables")
    /\ LET ks == {<<verts[v].Module, e[1]>> : e \in scratch[v]}
       IN /\ table' = [k \in Keys |->
                         IF k \in ks
                         THEN (CHOOSE e \in scratch[v] : e[1] = k[2])[2]
                         ELSE table[k]]
          /\ writers' = [k \in Keys |-> IF k \in ks THEN writers[k] \cup {v}
                                        ELSE writers[k]]
    /\ AfterNode(v, "EvalSetVariables", TRUE)
    /\ UNCHANGED <<verts, scratch, reads, early, graphVars, addrVars>>

NextEval ==
    \/ \E v \in EvalNames : Start(v)
    \/ \E v \in EvalNames : RunNoop(v)
    \/ \E v \in EvalNames, fails \in BOOLEAN : Interpolate(v, fails)
    \/ \E v \in EvalNames, fails \in BOOLEAN : VariableBlock(v, fails)
    \/ \E v \in EvalNames, fails \in BOOLEAN : CoerceMapVariable(v, fails)
    \/ \E v \in EvalNames, fails \in BOOLEAN : TypeCheckVariable(v, fails)
    \/ \E v \in EvalNames : SetVariables(v)

SpecEval == InitEval /\ [][NextEval]_vars

\* ============================================================= SpecAddr
\* Two address values are built step by step (ModuleCall, then Instance(key),
\* then Output(name)) and rendered with String().

Slots == {1, 2}

NoAddr ==
    [type |-> "none", v |-> ModuleCall(<<>>), recv |-> ModuleCall(<<>>),
     key |-> NoKey, name |-> <<>>]

NoStr == [set |-> FALSE, val |-> <<>>]

InitAddr ==
    /\ addr = [s \in Slots |-> NoAddr]
    /\ str = [s \in Slots |-> NoStr]
    /\ GraphIdle
    /\ EvalIdle

\* ModuleCall{Name: name}, a fresh value in an empty slot
NewCall(s, name) ==
    /\ addr[s].type = "none"
    /\ addr' = [addr EXCEPT ![s] =
                  [type |-> "call", v |-> ModuleCall(name), recv |-> ModuleCall(name),
                   key |-> NoKey, name |-> name]]
    /\ str' = [str EXCEPT ![s] = NoStr]
    /\ UNCHANGED <<graphVars, evalVars>>

\* c.Instance(key) on the ModuleCall held in the slot
DoInstance(s, key) ==
    /\ addr[s].type = "call"
    /\ addr' = [addr EXCEPT ![s] =
                  [type |-> "instance", v |-> CallInstance(addr[s].v, key),
                   recv |-> addr[s].v, key |-> key, name |-> <<>>]]
    /\ str' = [str EXCEPT ![s] = NoStr]
    /\ UNCHANGED <<graphVars, evalVars>>

\* c.Output(name) on the ModuleCallInstance held in the slot
DoOutput(s, name) ==
    /\ addr[s].type = "instance"
    /\ addr' = [addr EXCEPT ![s] =
                  [type |-> "output", v |-> InstanceOutput(addr[s].v, name),
                   recv |-> addr[s].v, key |-> NoKey, name |-> name]]
    /\ str' = [str EXCEPT ![s] = NoStr]
    /\ UNCHANGED <<graphVars, evalVars>>

\* String() on the value held in the slot, by its static type
DoString(s) ==
    /\ addr[s].type # "none"
    /\ str' = [str EXCEPT ![s] =
                 [set |-> TRUE,
                  val |-> CASE addr[s].type = "call" -> CallString(addr[s].v)
                            [] addr[s].type = "instance" -> InstanceString(addr[s].v)
                            [] OTHER -> OutputString(addr[s].v)]]
    /\ UNCHANGED <<addr, graphVars, evalVars>>

NextAddr ==
    \/ \E s \in Slots, name \in Names : NewCall(s, name)
    \/ \E s \in Slots, key \in InstanceKeys : DoInstance(s, key)
    \/ \E s \in Slots, name \in Names : DoOutput(s, name)
    \/ \E s \in Slots : DoString(s)

SpecAddr == InitAddr /\ [][NextAddr]_vars

\* =============================================================== claims

IsPrefix(a, b) == Len(a) <= Len(b) /\ \A i \in 1..Len(a) : a[i] = b[i]

Last(a) == a[Len(a)]

Parent(p) == SubSeq(p, 1, Len(p) - 1)

\* The order of the pipeline: Interpolate, Extract Variable Block, Coerce,
\* Type-Check, Commit.
PipelineOrder ==
    <<"EvalInterpolate", "EvalVariableBlock", "EvalCoerceMapVariable",
      "EvalTypeCheckVariable", "EvalSetVariables">>

Wrote(v) == \E k \in Keys : v \in writers[k]

\* C1: for a vertex with a raw value, the nodes run in the pipeline's order;
\* the vertex writes the table only after all five ran and the first four
\* succeeded; once one of the first four fails nothing further runs, the
\* failure is reported to the walker, and the vertex has written nothing, so
\* its slot of the table is as it was before the run.
ThmC1 ==
    \A v \in EvalNames :
        ~verts[v].Value.nil =>
            /\ IsPrefix(trace[v], PipelineOrder)
            /\ Wrote(v) => (trace[v] = PipelineOrder /\ status[v] = "done")
            /\ status[v] = "done" => (trace[v] = PipelineOrder /\ v \notin reported)
            /\ status[v] = "failed" =>
                  /\ v \in reported
                  /\ Len(trace[v]) = pos[v] + 1
                  /\ Last(trace[v]) \in Fallible
                  /\ ~Wrote(v)
                  /\ table[Key(verts[v])] = "unset"

\* C1 witness: one vertex failed at type-check after its first three steps,
\* another one ran all five and committed.
WitC1 ==
    \E v, w \in EvalNames :
        /\ status[v] = "failed"
        /\ trace[v] = SubSeq(PipelineOrder, 1, 4)
        /\ status[w] = "done"
        /\ w \in writers[Key(verts[w])]
        /\ table[Key(verts[w])] = "typed"

\* C2: under a walker that starts a vertex only after its dependencies have
\* completed, no Interpolate reads a table slot whose writing vertex has not
\* committed yet, and no slot is written by more than one vertex.
ThmC2 ==
    /\ early = {}
    /\ \A k \in Keys : Cardinality(writers[k]) <= 1
    /\ \A v \in EvalNames : \A k \in reads[v] : \A w \in EvalNames :
          (~verts[w].Value.nil /\ Key(verts[w]) = k) => status[w] = "done"

\* C2 witness: a vertex has interpolated a slot its dependency committed,
\* while a third vertex is in the middle of its own pipeline.
WitC2 ==
    \E v, w, u \in EvalNames :
        /\ v # w /\ v # u /\ w # u
        /\ status[v] = "running" /\ pos[v] >= 1
        /\ Key(verts[w]) \in reads[v]
        /\ w \in writers[Key(verts[w])]
        /\ status[u] = "running" /\ pos[u] >= 1

\* C6: a vertex without a raw value depends on nothing and its pipeline is
\* the single no-op: it reads no slot, is never reported as failed, writes
\* nothing, and its slot of the table stays as it was.
ThmC6 ==
    \A v \in EvalNames :
        verts[v].Value.nil =>
            /\ DependentOn(verts[v]) = <<>>
            /\ EvalTree(verts[v]).type = "EvalNoop"
            /\ IsPrefix(trace[v], <<"EvalNoop">>)
            /\ status[v] = "done" => trace[v] = <<"EvalNoop">>
            /\ reads[v] = {}
            /\ status[v] # "failed" /\ v \notin reported
            /\ ~Wrote(v)
            /\ table[Key(verts[v])] = "external"

\* C6 witness: a vertex without a raw value has been run to completion while
\* another vertex has committed.
WitC6 ==
    \E v, w \in EvalNames :
        /\ verts[v].Value.nil /\ status[v] = "done"
        /\ Wrote(w)

\* C3: on an unflattened vertex DestroyEdgeInclude(v) is true exactly when v
\* is count-dependent and CountDependentOn() shares a name with
\* DependableName().
ThmC3 ==
    (ret.op = "DestroyEdgeInclude" /\ ~fl.set) =>
        ret.ok = (/\ ret.arg.isCountDependent
                  /\ Range(ret.arg.CountDependentOn) \cap {"var." \o n.Variable.Name} # {})

\* C3 witness: an edge kept for a match in the second count dependency.
WitC3 ==
    /\ ret.op = "DestroyEdgeInclude" /\ ~fl.set /\ ret.ok
    /\ Len(ret.arg.CountDependentOn) = 2
    /\ ret.arg.CountDependentOn[1] # Name(n)

\* C4: the flattened vertex's DependentOn() is the base vertex's, name by
\* name and in the same order, each prefixed with the module prefix of the
\* parent path when the path has more than two segments and unprefixed
\* otherwise; Path() is the parent path, or empty for two or fewer segments.
ThmC4 ==
    LET p == fl.v.PathValue
        base == DependentOn(n)
    IN /\ (ret.op = "DependentOn" /\ fl.set) =>
             /\ Len(ret.out) = Len(base)
             /\ \A i \in 1..Len(base) :
                   ret.out[i] = IF Len(p) > 2
                                THEN modulePrefixStr(Parent(p)) \o "." \o base[i]
                                ELSE base[i]
       /\ (ret.op = "Path" /\ fl.set) =>
             ret.out = IF Len(p) > 2 THEN Parent(p) ELSE <<>>

\* C4 witness: two dependency names returned for a path of three segments.
WitC4 ==
    /\ ret.op = "DependentOn" /\ fl.set
    /\ Len(fl.v.PathValue) > 2
    /\ Len(ret.out) = 2
    /\ ret.out[1] # ret.out[2]

\* C5 as stated: the flattened Name() is the unflattened name prefixed with
\* the parent path's prefix for more than two segments, unprefixed otherwise.
OrigC5 ==
    (ret.op = "Name" /\ fl.set) =>
        ret.out[1] = IF Len(fl.v.PathValue) > 2
                     THEN modulePrefixStr(Parent(fl.v.PathValue)) \o "." \o Name(n)
                     ELSE Name(n)

\* C5 amended: the flattened Name() is the unflattened name prefixed with the
\* module prefix of the whole path, last segment included, whatever the
\* path's length.
ThmC5 ==
    (ret.op = "Name" /\ fl.set) =>
        ret.out[1] = modulePrefixStr(fl.v.PathValue) \o ".var." \o n.Variable.Name

\* C5 witness: Name() called on a vertex flattened at three segments.
WitC5 ==
    /\ ret.op = "Name" /\ fl.set
    /\ Len(fl.v.PathValue) > 2

\* C7: with a raw value, DependentOn() holds exactly the dependency names of
\* the raw value's references, those without a name left out.
ThmC7 ==
    (ret.op = "DependentOn" /\ ~fl.set /\ ~n.Value.nil) =>
        /\ Range(ret.out) =
              {varNameForVar(r) : r \in Range(n.Value.Variables)} \ {""}
        /\ ret.ok

\* C7 witness: a raw value with a nameless reference first and a named one
\* after it.
WitC7 ==
    /\ ret.op = "DependentOn" /\ ~fl.set /\ ~n.Value.nil
    /\ Len(n.Value.Variables) = 2
    /\ varNameForVar(n.Value.Variables[1]) = ""
    /\ Len(ret.out) = 1

\* C10: on a flattened vertex DestroyEdgeInclude(v) is decided against the
\* base vertex's name var.<name>: a candidate naming only the flattened
\* DependableName() is rejected.
ThmC10 ==
    (ret.op = "DestroyEdgeInclude" /\ fl.set) =>
        /\ ret.ok = (/\ ret.arg.isCountDependent
                     /\ ("var." \o n.Variable.Name) \in Range(ret.arg.CountDependentOn))
        /\ (/\ FlatDependableName(fl.v)[1] \in Range(ret.arg.CountDependentOn)
            /\ ("var." \o n.Variable.Name) \notin Range(ret.arg.CountDependentOn))
              => ~ret.ok

\* C10 witness: a candidate that count-depends on the flattened name only.
WitC10 ==
    /\ ret.op = "DestroyEdgeInclude" /\ fl.set
    /\ ret.arg.isCountDependent
    /\ FlatDependableName(fl.v)[1] \in Range(ret.arg.CountDependentOn)
    /\ Name(n) \notin Range(ret.arg.CountDependentOn)
    /\ ~ret.ok

\* The rendering the address model specifies for call name nm and key k.
SpecifiedInstance(nm, k) ==
    IF k = NoKey THEN ModuleDot \o nm ELSE (ModuleDot \o nm) \o KeyString(k)

\* C8: Instance(key) and Output(name) return values holding exactly their
\* receiver and argument; a call renders as module.<Name>, an instance as the
\* call's rendering with the key's appended unless the key is NoKey, an
\* output as the instance's rendering, ".", and the output name.
ThmC8 ==
    \A s \in Slots :
        /\ addr[s].type = "instance" =>
              (addr[s].v.Call = addr[s].recv /\ addr[s].v.Key = addr[s].key)
        /\ addr[s].type = "output" =>
              (addr[s].v.Call = addr[s].recv /\ addr[s].v.Name = addr[s].name)
        /\ (str[s].set /\ addr[s].type = "call") =>
              str[s].val = ModuleDot \o addr[s].v.Name
        /\ (str[s].set /\ addr[s].type = "instance") =>
              str[s].val = SpecifiedInstance(addr[s].v.Call.Name, addr[s].v.Key)
        /\ (str[s].set /\ addr[s].type = "output") =>
              str[s].val = SpecifiedInstance(addr[s].v.Call.Call.Name, addr[s].v.Call.Key)
                              \o <<".">> \o addr[s].v.Name

\* C8 witness: an output of an instance with a non-empty string key rendered.
WitC8 ==
    \E s \in Slots :
        /\ addr[s].type = "output" /\ str[s].set
        /\ addr[s].v.Call.Key.kind = "string"
        /\ Len(addr[s].v.Call.Key.str) >= 1
        /\ Len(addr[s].v.Name) >= 1

Triple(co) == <<co.Call.Call.Name, co.Call.Key, co.Name>>

BothRendered ==
    \A s \in Slots : addr[s].type = "output" /\ str[s].set

\* A call name holding neither "." nor "[".
IsPlainName(nm) == \A i \in 1..Len(nm) : nm[i] \notin {".", "["}

====
